---- MODULE Spec2Model ----
(***************************************************************************)
(* PlantumlSvgPatcher (src/src/plantumlsvgpatcher.cpp): run() reads an SVG *)
(* file, patchBareRefs() rewrites every anchor whose link attribute is the *)
(* bare placeholder href="\ref", and run() writes the file back.           *)
(*                                                                         *)
(* Text is modelled character by character: a string is a sequence of      *)
(* one-character strings, and an offset is 0-based as in the source        *)
(* (the character at offset i of s is s[i+1]); -1 means "not found".       *)
(***************************************************************************)
EXTENDS Integers, Sequences, FiniteSets, TLC

(* ------------------------------ literals ------------------------------ *)
BareHref == <<"h", "r", "e", "f", "=", "\"", "\\", "r", "e", "f", "\"">>
XlinkPrefix == <<"x", "l", "i", "n", "k", ":">>
ATagOpen == <<"<", "a">>
ATagEnd == <<"<", "/", "a", ">">>
Gt == <<">">>
Lt == <<"<">>
TextOpen == <<"<", "t", "e", "x", "t">>
TextEnd == <<"<", "/", "t", "e", "x", "t", ">">>
HrefEq == <<"h", "r", "e", "f", "=", "\"">>
Quote == <<"\"">>
Hash == <<"#">>
Dot == <<".">>
Space == <<" ">>
Backslash == <<"\\">>
SingleQuote == <<"'">>
OnclickOpen == <<" ", "o", "n", "c", "l", "i", "c", "k", "=", "\"">>
HandlerHead == <<"w", "i", "n", "d", "o", "w", ".", "p", "a", "r", "e", "n", "t", ".", "p", "o", "s", "t", "M", "e", "s", "s", "a", "g", "e", "(", "{", "t", "y", "p", "e", ":", "'", "u", "n", "r", "e", "s", "o", "l", "v", "e", "d", "-", "r", "e", "f", "'", ",", "n", "a", "m", "e", ":", "'">>
HandlerTail == <<"'", "}", ",", "'", "*", "'", ")", ";", "r", "e", "t", "u", "r", "n", " ", "f", "a", "l", "s", "e", ";">>
HtmlFileExtension == <<".", "h", "t", "m", "l">>
NameFoo == <<"f", "o", "o">>
NameEsc == <<"a", "\\", "b", "'", "c">>
FileFoo == <<"f", "o", "o", ".", "h", "t", "m", "l">>
FileBar == <<"b", "a", "r">>
AnchorSec == <<"s", "e", "c">>
TagRef == <<"e", "x", "t">>
TagDest == <<".", ".", "/", "e", "x", "t", "/">>
RelUp == <<".", ".", "/">>
TargetAttr == <<"t", "a", "r", "g", "e", "t", "=", "\"", "_", "t", "o", "p", "\"">>
TextAttr == <<" ", "y", "=", "\"", "2", "\"">>
Filler == <<"<", "g", "/", ">", "x">>

(* --------------------------- model bounds ----------------------------- *)
\* the input buffer is a concatenation of at most MaxChunks vocabulary chunks
MaxChunks == 2
\* patchBareRefs' loop is followed for at most MaxIters iterations
MaxIters == 6
\* ... of which at most MaxCalls resolve a name and replace a tag
MaxCalls == 3
\* the longest reference name of NameSpec
MaxNameLen == 3
\* the most pieces the content of CaptionSpec's anchor is made of
MaxPieces == 2

(* ------------------- QCString / util primitives ----------------------- *)
\* s holds needle at offset i
StartsAt(s, needle, i) ==
  /\ i >= 0
  /\ i + Len(needle) <= Len(s)
  /\ s[i + 1] = needle[1]
  /\ SubSeq(s, i + 1, i + Len(needle)) = needle

Min(S) == CHOOSE x \in S : \A y \in S : x <= y
Max(S) == CHOOSE x \in S : \A y \in S : y <= x

\* the offsets in lo..hi at which s holds needle (0 <= lo, hi + Len(needle) <= Len(s))
Occurrences(s, needle, lo, hi) ==
  LET c == needle[1]
      n == Len(needle)
  IN {i \in lo..hi : s[i + 1] = c /\ SubSeq(s, i + 1, i + n) = needle}

\* QCString::find(str, index): first occurrence starting at or after index
Find(s, needle, index) ==
  IF index < 0 \/ index >= Len(s) THEN -1
  ELSE LET hits == Occurrences(s, needle, index, Len(s) - Len(needle))
       IN IF hits = {} THEN -1 ELSE Min(hits)

\* QCString::findRev(str, index): last occurrence starting at or before index
\* (index -1: from the end)
FindRev(s, needle, index) ==
  IF index > Len(s) THEN -1
  ELSE LET from == IF index < 0 \/ index + Len(needle) > Len(s)
                   THEN Len(s) - Len(needle) ELSE index
           hits == Occurrences(s, needle, 0, from)
       IN IF hits = {} THEN -1 ELSE Max(hits)

\* QCString::mid(index, len): len is a size_t, so that a negative int
\* argument is a huge length and the slice runs to the end of the string
Mid(s, index, len) ==
  IF index < 0 \/ index > Len(s) \/ len = 0 THEN <<>>
  ELSE SubSeq(s, index + 1,
              IF len < 0 \/ index + len > Len(s) THEN Len(s) ELSE index + len)

\* QCString::mid(index): to the end of the string
MidToEnd(s, index) == Mid(s, index, Len(s) - index)

\* QCString::left(len)
Left(s, len) == SubSeq(s, 1, IF len > Len(s) THEN Len(s) ELSE len)

\* substitute(s, src, dst): every occurrence of src, left to right, non-overlapping
RECURSIVE substitute(_, _, _)
substitute(s, src, dst) ==
  LET p == Find(s, src, 0)
  IN IF p = -1 THEN s
     ELSE Left(s, p) \o dst \o substitute(MidToEnd(s, p + Len(src)), src, dst)

WhiteSpace == {" ", "\t", "\n", "\r"}

\* QCString::stripWhiteSpace(): leading and trailing white space removed
RECURSIVE stripWhiteSpace(_)
stripWhiteSpace(s) ==
  IF s = <<>> THEN s
  ELSE IF s[1] \in WhiteSpace THEN stripWhiteSpace(Tail(s))
  ELSE IF s[Len(s)] \in WhiteSpace THEN stripWhiteSpace(SubSeq(s, 1, Len(s) - 1))
  ELSE s

\* reg::search with  <text[^>]*>([^<]+)</text>  attempted at offset p:
\* "<text", anything but '>' up to the first '>', one or more characters
\* other than '<', then "</text>".  TextGroupEnd is the offset of that '<'.
TextTagEnd(s, p) == Find(s, Gt, p + Len(TextOpen))
TextGroupEnd(s, p) == Find(s, Lt, TextTagEnd(s, p) + 1)
TextPatternAt(s, p) ==
  /\ StartsAt(s, TextOpen, p)
  /\ TextTagEnd(s, p) # -1
  /\ TextGroupEnd(s, p) > TextTagEnd(s, p) + 1
  /\ StartsAt(s, TextEnd, TextGroupEnd(s, p))

\* the leftmost offset at or after p where the pattern matches
TextPatternSearch(s, p) ==
  LET hits == {q \in p..(Len(s) - 1) : TextPatternAt(s, q)}
  IN IF hits = {} THEN -1 ELSE Min(hits)

\* PlantumlSvgPatcher::extractRefNameFromAnchorContent
extractRefNameFromAnchorContent(anchorContent_) ==
  LET p == TextPatternSearch(anchorContent_, 0)
  IN IF p = -1 THEN <<>>
     ELSE stripWhiteSpace(Mid(anchorContent_, TextTagEnd(anchorContent_, p) + 1,
            TextGroupEnd(anchorContent_, p) - TextTagEnd(anchorContent_, p) - 1))

\* the namespaced spelling  xlink:href="\ref"
BareXlinkHref == XlinkPrefix \o BareHref

(* ---------------------- reference resolution -------------------------- *)
\* what createRef can hand back for a name: isRef is FALSE when the AST is
\* no DocNodeAST or its root no DocRef
Descriptors ==
  { [isRef |-> TRUE,  file |-> <<>>,    anchor |-> <<>>,      ref |-> <<>>],
    [isRef |-> TRUE,  file |-> FileFoo, anchor |-> <<>>,      ref |-> <<>>],
    [isRef |-> TRUE,  file |-> FileBar, anchor |-> AnchorSec, ref |-> TagRef] }

\* externalRef(relPath, ref, TRUE): the tag file's destination for an
\* external reference, the relative path otherwise
externalRef(relPath, ref) == IF ref # <<>> THEN TagDest ELSE relPath

\* addHtmlExtensionIfMissing(fn)
addHtmlExtensionIfMissing(fn) ==
  IF fn = <<>> \/ Find(fn, Dot, 0) # -1 THEN fn ELSE fn \o HtmlFileExtension

\* faulty variant: a reference with an anchor but no file counts as unresolved
resolveRefToUrl_FileOnly(df, relPath) ==
  IF df.isRef /\ df.file # <<>>
  THEN externalRef(relPath, df.ref)
         \o addHtmlExtensionIfMissing(df.file)
         \o (IF df.anchor # <<>> THEN Hash \o df.anchor ELSE <<>>)
  ELSE <<>>

\* PlantumlSvgPatcher::resolveRefToUrl, given createRef's answer df
resolveRefToUrl(df, relPath) ==
  IF df.isRef /\ (df.file # <<>> \/ df.anchor # <<>>)
  THEN externalRef(relPath, df.ref)
         \o (IF df.file # <<>> THEN addHtmlExtensionIfMissing(df.file) ELSE <<>>)
         \o (IF df.anchor # <<>> THEN Hash \o df.anchor ELSE <<>>)
  ELSE <<>>

(* ----------------------------- inputs --------------------------------- *)
\* an attribute of an anchor's opening tag, as written in the input
AttrText(a) ==
  CASE a = "href"  -> Space \o BareHref
    [] a = "xlink" -> Space \o BareXlinkHref
    [] OTHER       -> Space \o TargetAttr

RECURSIVE AttrsText(_)
AttrsText(attrs) ==
  IF attrs = <<>> THEN <<>> ELSE AttrText(Head(attrs)) \o AttrsText(Tail(attrs))

Caption(name) == TextOpen \o Gt \o name \o TextEnd

Anchor(lead, attrs, inner, name, closed) ==
  [kind |-> "anchor", lead |-> lead, attrs |-> attrs, inner |-> inner,
   name |-> name, closed |-> closed]
Raw(text) ==
  [kind |-> "raw", lead |-> text, attrs |-> <<>>, inner |-> <<>>,
   name |-> <<>>, closed |-> FALSE]

\* the pieces input buffers are built from
Vocabulary ==
  << Anchor(<<>>, <<"href">>, Caption(NameFoo), NameFoo, TRUE),
     Anchor(Filler, <<"xlink", "target">>,
            TextOpen \o TextAttr \o Gt \o Space \o NameEsc \o Space \o TextEnd,
            NameEsc, TRUE),
     Anchor(<<>>, <<"href", "xlink">>, Caption(NameFoo), NameFoo, TRUE),
     Anchor(<<>>, <<"xlink", "href">>, Caption(NameEsc), NameEsc, TRUE),
     Anchor(<<>>, <<"href">>, Caption(NameFoo), NameFoo, FALSE),
     Anchor(<<>>, <<"href">>, <<>>, <<>>, TRUE),
     Anchor(<<>>, <<>>, Caption(NameFoo) \o BareHref, NameFoo, TRUE),
     Anchor(<<>>, <<"target">>, Caption(NameFoo), NameFoo, TRUE),
     Raw(BareHref),
     Raw(ATagOpen \o Space \o BareXlinkHref),
     Raw(ATagEnd \o Caption(NameFoo)) >>

ChunkText(c) ==
  IF c.kind = "raw" THEN c.lead
  ELSE c.lead \o ATagOpen \o AttrsText(c.attrs) \o Gt \o c.inner
         \o (IF c.closed THEN ATagEnd ELSE <<>>)

RECURSIVE Flatten(_)
Flatten(ids) ==
  IF ids = <<>> THEN <<>>
  ELSE ChunkText(Vocabulary[Head(ids)]) \o Flatten(Tail(ids))

(* ------------------------------ state --------------------------------- *)
VARIABLES
  chunks,       \* the vocabulary chunks the input file was built from
  file,         \* the content of m_svgFile on disk
  m_relPath,    \* constructor argument
  refTable,     \* createRef's answer for every name asked so far
  pc,           \* "start", "loop" (in patchBareRefs), "write", "done"
  entry,        \* "run" or "patch": which function was called
  content,      \* patchBareRefs' argument
  result,       \* patchBareRefs' buffer
  searchStart,  \* patchBareRefs' cursor
  ret,          \* run()'s return value: "none", "true", "false"
  io,           \* run()'s attempts to open the file, in order
  calls,        \* calls of resolveRefToUrl
  iters,        \* iterations of patchBareRefs' loop
  last          \* what the latest loop iteration did

vars == <<chunks, file, m_relPath, refTable, pc, entry, content, result,
          searchStart, ret, io, calls, iters, last>>

NoStep ==
  [step |-> "none", cursor |-> 0, before |-> <<>>, refPos |-> -1,
   aTagStart |-> -1, aTagOpenEnd |-> -1, aTagClose |-> -1,
   refName |-> <<>>, url |-> <<>>]

EmptyTable == [n \in {} |-> [isRef |-> FALSE, file |-> <<>>, anchor |-> <<>>, ref |-> <<>>]]

Init ==
  /\ chunks \in UNION {[1..n -> 1..Len(Vocabulary)] : n \in 0..MaxChunks}
  /\ file = Flatten(chunks)
  /\ m_relPath \in {<<>>, RelUp}
  /\ refTable = EmptyTable
  /\ pc = "start"
  /\ entry = "none"
  /\ content = <<>>
  /\ result = <<>>
  /\ searchStart = 0
  /\ ret = "none"
  /\ io = <<>>
  /\ calls = 0
  /\ iters = 0
  /\ last = NoStep

\* the reference names of length 1..MaxNameLen over a letter, the backslash
\* and the single quote, and the two names of the vocabulary
NameAlphabet == {"a", "\\", "'"}
BoundedNames ==
  UNION {[1..n -> NameAlphabet] : n \in 1..MaxNameLen} \cup {NameFoo, NameEsc}

\* the file is one well-formed placeholder anchor captioned with a bounded
\* name, or that caption alone
NameInit ==
  /\ chunks = <<>>
  /\ \E name \in BoundedNames :
       file \in {ATagOpen \o Space \o BareHref \o Gt \o Caption(name) \o ATagEnd,
                 Caption(name)}
  /\ m_relPath = <<>>
  /\ refTable = EmptyTable
  /\ pc = "start"
  /\ entry = "none"
  /\ content = <<>>
  /\ result = <<>>
  /\ searchStart = 0
  /\ ret = "none"
  /\ io = <<>>
  /\ calls = 0
  /\ iters = 0
  /\ last = NoStep

\* every answer createRef can give: no DocRef at all, or a DocRef with or
\* without a file (with or without its extension), an anchor, a tag file
NoRef == [isRef |-> FALSE, file |-> <<>>, anchor |-> <<>>, ref |-> <<>>]
UrlDescriptors ==
  {NoRef} \cup
  { [isRef |-> TRUE, file |-> f, anchor |-> a, ref |-> r] :
      f \in {<<>>, FileFoo, FileBar}, a \in {<<>>, AnchorSec}, r \in {<<>>, TagRef} }

\* the file is the one anchor of the pattern, or its caption alone, and the
\* documentation answers the anchor's name with one of UrlDescriptors
UrlInit ==
  /\ chunks = <<>>
  /\ file \in {ATagOpen \o Space \o BareHref \o Gt \o Caption(NameFoo) \o ATagEnd,
                Caption(NameFoo)}
  /\ m_relPath \in {<<>>, RelUp}
  /\ refTable \in {(NameFoo :> df) : df \in UrlDescriptors}
  /\ pc = "start"
  /\ entry = "none"
  /\ content = <<>>
  /\ result = <<>>
  /\ searchStart = 0
  /\ ret = "none"
  /\ io = <<>>
  /\ calls = 0
  /\ iters = 0
  /\ last = NoStep

\* what may stand between an anchor's opening tag and its "</a>": a caption,
\* a caption of blanks, an empty caption, a caption with attributes and
\* blanks around the name, other markup, a caption with markup inside
CaptionPieces ==
  << Caption(NameFoo),
     Caption(<<" ", " ">>),
     Caption(<<>>),
     TextOpen \o TextAttr \o Gt \o Space \o NameEsc \o Space \o TextEnd,
     Filler,
     Caption(<<"a">> \o Filler) >>

RECURSIVE Pieces(_)
Pieces(ids) ==
  IF ids = <<>> THEN <<>> ELSE CaptionPieces[Head(ids)] \o Pieces(Tail(ids))

AnchorContents ==
  {Pieces(ids) : ids \in UNION {[1..n -> 1..Len(CaptionPieces)] : n \in 0..MaxPieces}}

\* the file is one placeholder anchor around a content, alone, followed by
\* the caption of another element or preceded by the opening tag of an
\* unclosed placeholder anchor, or the content alone
CaptionInit ==
  /\ chunks = <<>>
  /\ \E inner \in AnchorContents :
       file \in {ATagOpen \o Space \o BareHref \o Gt \o inner \o ATagEnd,
                 ATagOpen \o Space \o BareHref \o Gt \o inner \o ATagEnd
                   \o Caption(NameEsc),
                 ATagOpen \o Space \o BareXlinkHref \o Gt
                   \o ATagOpen \o Space \o BareHref \o Gt \o inner \o ATagEnd,
                 inner}
  /\ m_relPath = <<>>
  /\ refTable = EmptyTable
  /\ pc = "start"
  /\ entry = "none"
  /\ content = <<>>
  /\ result = <<>>
  /\ searchStart = 0
  /\ ret = "none"
  /\ io = <<>>
  /\ calls = 0
  /\ iters = 0
  /\ last = NoStep

(* ----------------------- patchBareRefs' locals ------------------------ *)
hrefPos(r, ss) == Find(r, BareHref, ss)
xlinkPos(r, ss) == Find(r, BareXlinkHref, ss)

\* faulty variant: the plain spelling wins whenever it occurs
refPos_PlainFirst(hp, xp) == IF hp # -1 THEN hp ELSE xp

\* faulty variant: only the namespaced spelling is looked for
refPos_NamespacedOnly(hp, xp) == xp

\* "Determine which one comes first"
refPos(hp, xp) ==
  IF hp # -1 /\ (xp = -1 \/ hp < xp) THEN hp
  ELSE IF xp # -1 THEN xp
  ELSE -1

aTagStart(r, rp) == FindRev(r, ATagOpen, rp)
aTagClose(r, rp) == Find(r, ATagEnd, rp)
aTagOpenEnd(r, ts) == Find(r, Gt, ts)

openingTag(r, ts, te) == Mid(r, ts, te - ts + 1)
anchorContent(r, te, tc) == Mid(r, te + 1, tc - te - 1)

\* faulty variant: the end of the opening tag is not compared with the "</a>"
Locate_NoOrderCheck(r, ss) ==
  LET rp == refPos(hrefPos(r, ss), xlinkPos(r, ss))
      ts == aTagStart(r, rp)
      tc == aTagClose(r, rp)
      te == aTagOpenEnd(r, ts)
      malformed == ts = -1 \/ tc = -1 \/ te = -1
      name == IF malformed THEN <<>>
              ELSE extractRefNameFromAnchorContent(anchorContent(r, te, tc))
  IN [refPos |-> rp, aTagStart |-> ts, aTagClose |-> tc, aTagOpenEnd |-> te,
      skip |-> malformed \/ name = <<>>, refName |-> name]

\* faulty variant: an empty reference name is resolved like any other
Locate_IgnoresEmptyName(r, ss) ==
  LET rp == refPos(hrefPos(r, ss), xlinkPos(r, ss))
      ts == aTagStart(r, rp)
      tc == aTagClose(r, rp)
      te == aTagOpenEnd(r, ts)
      malformed == ts = -1 \/ tc = -1 \/ te = -1 \/ te > tc
      name == IF malformed THEN <<>>
              ELSE extractRefNameFromAnchorContent(anchorContent(r, te, tc))
  IN [refPos |-> rp, aTagStart |-> ts, aTagClose |-> tc, aTagOpenEnd |-> te,
      skip |-> malformed, refName |-> name]

\* one pass over the loop body's lookups, down to the last "continue":
\* skip is TRUE when one of the four "continue" statements is taken
Locate(r, ss) ==
  LET rp == refPos(hrefPos(r, ss), xlinkPos(r, ss))
      ts == aTagStart(r, rp)
      tc == aTagClose(r, rp)
      te == aTagOpenEnd(r, ts)
      malformed == ts = -1 \/ tc = -1 \/ te = -1 \/ te > tc
      name == IF malformed THEN <<>>
              ELSE extractRefNameFromAnchorContent(anchorContent(r, te, tc))
  IN [refPos |-> rp, aTagStart |-> ts, aTagClose |-> tc, aTagOpenEnd |-> te,
      skip |-> malformed \/ name = <<>>, refName |-> name]

\* faulty variant: the plain spelling is never seen in the tag
hasHref_Never(tag) == FALSE

hasHref(tag) == Find(tag, BareHref, 0) # -1
hasXlinkHref(tag) == Find(tag, BareXlinkHref, 0) # -1

\* faulty variant: single quotes are escaped first, backslashes second
escapedRefName_QuoteFirst(name) ==
  substitute(substitute(name, SingleQuote, Backslash \o SingleQuote),
             Backslash, Backslash \o Backslash)

escapedRefName(name) ==
  substitute(substitute(name, Backslash, Backslash \o Backslash),
             SingleQuote, Backslash \o SingleQuote)

onclickHandler(name) == HandlerHead \o escapedRefName(name) \o HandlerTail

\* faulty variant: the namespaced attribute is replaced first, under the plain key
replaceRefs_KeyLost(tag, value) ==
  substitute(substitute(tag, BareXlinkHref, HrefEq \o value \o Quote),
             BareHref, HrefEq \o value \o Quote)

\* both branches replace the placeholders the same way, by value "#" or url
replaceRefs(tag, value) ==
  LET t1 == IF hasHref(tag)
            THEN substitute(tag, BareHref, HrefEq \o value \o Quote)
            ELSE tag
  IN IF hasXlinkHref(tag)
     THEN substitute(t1, BareXlinkHref, XlinkPrefix \o HrefEq \o value \o Quote)
     ELSE t1

\* faulty variant: the handler is appended after the closing ">"
addOnclick_AfterBracket(tag, name) ==
  tag \o OnclickOpen \o onclickHandler(name) \o Quote

\* "Add onclick handler before the closing >"
addOnclick(tag, name) ==
  LET closingBracket == FindRev(tag, Gt, -1)
  IN IF closingBracket # -1
     THEN Left(tag, closingBracket) \o OnclickOpen \o onclickHandler(name)
            \o Quote \o MidToEnd(tag, closingBracket)
     ELSE tag

\* faulty variant: the handler is added in the resolved branch too
newOpeningTag_AlwaysOnclick(tag, name, url) ==
  addOnclick(replaceRefs(tag, IF url = <<>> THEN Hash ELSE url), name)

newOpeningTag(tag, name, url) ==
  IF url = <<>> THEN addOnclick(replaceRefs(tag, Hash), name)
  ELSE replaceRefs(tag, url)

\* faulty variant: the rest of the buffer is taken from the old tag's ">" on
splice_KeepsBracket(r, ts, te, newTag) == Left(r, ts) \o newTag \o MidToEnd(r, te)

\* "Replace the entire opening tag"
splice(r, ts, te, newTag) == Left(r, ts) \o newTag \o MidToEnd(r, te + 1)

\* "Move search position forward"
nextSearchStart(ts, newTag) == ts + Len(newTag)

StepRecord(kind, loc, u) ==
  [step |-> kind, cursor |-> searchStart, before |-> result,
   refPos |-> loc.refPos, aTagStart |-> loc.aTagStart,
   aTagOpenEnd |-> loc.aTagOpenEnd, aTagClose |-> loc.aTagClose,
   refName |-> loc.refName, url |-> u]

(* ----------------------------- actions -------------------------------- *)
\* faulty variant: the gate lets every file through
hasBareRefs_Always(svgContent) == TRUE

\* the gate of run()
hasBareRefs(svgContent) ==
  ~(Find(svgContent, BareHref, 0) = -1 /\ Find(svgContent, BareXlinkHref, 0) = -1)

\* run(): the file cannot be opened for reading
RunOpenFail ==
  /\ pc = "start"
  /\ pc' = "done"
  /\ entry' = "run"
  /\ io' = Append(io, "read failed")
  /\ ret' = "false"
  /\ UNCHANGED <<chunks, file, m_relPath, refTable, content, result,
                 searchStart, calls, iters, last>>

\* run(): the file is read and holds no bare ref
RunNothingToPatch ==
  /\ pc = "start"
  /\ ~hasBareRefs(file)
  /\ pc' = "done"
  /\ entry' = "run"
  /\ io' = Append(io, "read")
  /\ ret' = "true"
  /\ UNCHANGED <<chunks, file, m_relPath, refTable, content, result,
                 searchStart, calls, iters, last>>

\* run(): the file is read, holds a bare ref, and patchBareRefs is entered
RunPatch ==
  /\ pc = "start"
  /\ hasBareRefs(file)
  /\ pc' = "loop"
  /\ entry' = "run"
  /\ io' = Append(io, "read")
  /\ content' = file
  /\ result' = file
  /\ searchStart' = 0
  /\ UNCHANGED <<chunks, file, m_relPath, refTable, ret, calls, iters, last>>

\* patchBareRefs called on a buffer run() never hands it (one without a bare
\* ref); on the others the loop runs as it does under RunPatch
CallPatch ==
  /\ pc = "start"
  /\ ~hasBareRefs(file)
  /\ pc' = "loop"
  /\ entry' = "patch"
  /\ content' = file
  /\ result' = file
  /\ searchStart' = 0
  /\ UNCHANGED <<chunks, file, m_relPath, refTable, ret, io, calls, iters,
                 last>>

\* createRef's answer for a name: the one it gave before, if it was asked
\* before (the documentation does not change while the patcher runs)
Answers(name) ==
  IF name \in DOMAIN refTable THEN {refTable[name]} ELSE Descriptors

Within == iters < MaxIters /\ calls < MaxCalls

\* one iteration of patchBareRefs' while (true) loop: it leaves the loop,
\* takes one of the "continue" statements, or resolves the name and replaces
\* the opening tag
LoopIteration ==
  /\ pc = "loop"
  /\ LET loc == Locate(result, searchStart)
     IN IF loc.refPos = -1
        THEN /\ pc' = IF entry = "run" THEN "write" ELSE "done"
             /\ last' = StepRecord("break", loc, <<>>)
             /\ UNCHANGED <<refTable, result, searchStart, calls, iters>>
        ELSE /\ Within
             /\ iters' = iters + 1
             /\ pc' = pc
             /\ IF loc.skip
                THEN /\ searchStart' = loc.refPos + 1
                     /\ last' = StepRecord("skip", loc, <<>>)
                     /\ UNCHANGED <<refTable, result, calls>>
                ELSE /\ calls' = calls + 1
                     /\ \E df \in Answers(loc.refName) :
                          /\ refTable' = (loc.refName :> df) @@ refTable
                          /\ LET url == resolveRefToUrl(df, m_relPath)
                                 tag == openingTag(result, loc.aTagStart, loc.aTagOpenEnd)
                                 newTag == newOpeningTag(tag, loc.refName, url)
                             IN /\ result' = splice(result, loc.aTagStart, loc.aTagOpenEnd, newTag)
                                /\ searchStart' = nextSearchStart(loc.aTagStart, newTag)
                                /\ last' = StepRecord("rewrite", loc, url)
  /\ UNCHANGED <<chunks, file, m_relPath, entry, content, ret, io>>

\* run(): the patched content is written back
RunWrite ==
  /\ pc = "write"
  /\ pc' = "done"
  /\ io' = Append(io, "write")
  /\ file' = result
  /\ ret' = "true"
  /\ UNCHANGED <<chunks, m_relPath, refTable, entry, content, result,
                 searchStart, calls, iters, last>>

\* faulty variant: the failed attempt to open the file has emptied it
RunWriteFail_Truncates ==
  /\ pc = "write"
  /\ pc' = "done"
  /\ io' = Append(io, "write failed")
  /\ file' = <<>>
  /\ ret' = "false"
  /\ UNCHANGED <<chunks, m_relPath, refTable, entry, content, result,
                 searchStart, calls, iters, last>>

\* run(): the file cannot be opened for writing
RunWriteFail ==
  /\ pc = "write"
  /\ pc' = "done"
  /\ io' = Append(io, "write failed")
  /\ ret' = "false"
  /\ UNCHANGED <<chunks, file, m_relPath, refTable, entry, content, result,
                 searchStart, calls, iters, last>>

Next ==
  \/ RunOpenFail
  \/ RunNothingToPatch
  \/ RunPatch
  \/ CallPatch
  \/ LoopIteration
  \/ RunWrite
  \/ RunWriteFail

Spec == Init /\ [][Next]_vars

\* patchBareRefs called once more, on the buffer it has returned, with the
\* documentation as it was
PatchAgain ==
  /\ pc = "done"
  /\ last.step = "break"
  /\ entry \in {"run", "patch"}
  /\ ret # "false"
  /\ pc' = "loop"
  /\ entry' = "again"
  /\ content' = result
  /\ searchStart' = 0
  /\ iters' = 0
  /\ last' = NoStep
  /\ UNCHANGED <<chunks, file, m_relPath, refTable, result, ret, io, calls>>

TwiceInit == Init /\ m_relPath = <<>>

TwiceNext == Next \/ PatchAgain

\* the program followed by a second call of patchBareRefs on its output
TwiceSpec == TwiceInit /\ [][TwiceNext]_vars

\* the same program on files built around every bounded reference name
NameSpec == NameInit /\ [][Next]_vars

\* the same program on the pattern's anchor, under every answer of createRef
UrlSpec == UrlInit /\ [][Next]_vars

\* the same program on one anchor around every bounded content
CaptionSpec == CaptionInit /\ [][Next]_vars

(* ------------------------ vocabulary of the claims --------------------- *)
\* patchBareRefs has left its loop and returned result
Returned == last.step = "break"

\* the buffer the file held at the start
InputBuffer == Flatten(chunks)

\* a chunk of the shape  <a ...placeholder...>...<text ...>NAME</text>...</a>
WellFormed(c) ==
  /\ c.kind = "anchor"
  /\ c.closed
  /\ c.name # <<>>
  /\ \E i \in DOMAIN c.attrs : c.attrs[i] \in {"href", "xlink"}
  /\ ~hasBareRefs(c.inner)

WellFormedInput == \A i \in DOMAIN chunks : WellFormed(Vocabulary[chunks[i]])

\* the placeholder occurrences, of either spelling, at or after offset ss
Remaining(r, ss) ==
  Cardinality(Occurrences(r, BareHref, ss, Len(r) - Len(BareHref)))
    + Cardinality(Occurrences(r, BareXlinkHref, ss, Len(r) - Len(BareXlinkHref)))

\* a name as it is to stand inside the single-quoted script string
EscapeChar(ch) ==
  IF ch = "\\" THEN <<"\\", "\\">>
  ELSE IF ch = "'" THEN <<"\\", "'">>
  ELSE <<ch>>

RECURSIVE EscapeCharwise(_)
EscapeCharwise(name) ==
  IF name = <<>> THEN <<>> ELSE EscapeChar(Head(name)) \o EscapeCharwise(Tail(name))

ExpectedOnclick(name) ==
  OnclickOpen \o HandlerHead \o EscapeCharwise(name) \o HandlerTail \o Quote

\* an attribute of a rewritten opening tag: the key kept, bound to value
ExpectedAttr(a, value) ==
  CASE a = "href"  -> Space \o HrefEq \o value \o Quote
    [] a = "xlink" -> Space \o XlinkPrefix \o HrefEq \o value \o Quote
    [] OTHER       -> AttrText(a)

RECURSIVE ExpectedAttrs(_, _)
ExpectedAttrs(attrs, value) ==
  IF attrs = <<>> THEN <<>>
  ELSE ExpectedAttr(Head(attrs), value) \o ExpectedAttrs(Tail(attrs), value)

\* a well-formed chunk after patching, built from its parts: url is empty
\* for an unresolved name
ExpectedChunk(c, url) ==
  c.lead \o ATagOpen
    \o ExpectedAttrs(c.attrs, IF url = <<>> THEN Hash ELSE url)
    \o (IF url = <<>> THEN ExpectedOnclick(c.name) ELSE <<>>)
    \o Gt \o c.inner \o ATagEnd

\* the URL the resolver's recorded answer gives a name
UrlFor(name) == resolveRefToUrl(refTable[name], m_relPath)

RECURSIVE ExpectedOutput(_)
ExpectedOutput(ids) ==
  IF ids = <<>> THEN <<>>
  ELSE ExpectedChunk(Vocabulary[Head(ids)], UrlFor(Vocabulary[Head(ids)].name))
         \o ExpectedOutput(Tail(ids))

\* the opening tag the latest iteration took, and the tag it put in its place
LastTag == openingTag(last.before, last.aTagStart, last.aTagOpenEnd)
LastNewTag == SubSeq(result, last.aTagStart + 1, searchStart)

(* ------------------------------- claims ------------------------------- *)
\* C1: patchBareRefs' loop terminates on every buffer: each iteration that
\* does not leave the loop leaves fewer placeholder occurrences at or after
\* the cursor than it found, so that "none left" is reached, and the
\* iterations never outnumber the characters of the buffer.
C1_LoopTerminates ==
  /\ iters <= Len(content)
  /\ last.step \in {"skip", "rewrite"}
       => Remaining(result, searchStart) < Remaining(last.before, last.cursor)

\* C2: after patching a buffer made of well-formed placeholder anchors, with
\* any mix of resolved and unresolved names, no placeholder of either
\* spelling is left in the returned buffer.
C2_NoPlaceholdersRemain ==
  (Returned /\ WellFormedInput) => Remaining(result, 0) = 0

C2_Witness ==
  /\ Returned
  /\ WellFormedInput
  /\ Len(chunks) = 2
  /\ \E n, m \in DOMAIN refTable : UrlFor(n) = <<>> /\ UrlFor(m) # <<>>

\* the examples of the specification, character by character
ExampleResolved ==
  <<"<", "a", " ", "h", "r", "e", "f", "=", "\"", "f", "o", "o", ".", "h", "t", "m", "l", "\"", ">", "<", "t", "e", "x", "t", ">", "f", "o", "o", "<", "/", "t", "e", "x", "t", ">", "<", "/", "a", ">">>
ExampleUnresolved ==
  <<"<", "a", " ", "h", "r", "e", "f", "=", "\"", "#", "\"", " ", "o", "n", "c", "l", "i", "c", "k", "=", "\"", "w", "i", "n", "d", "o", "w", ".", "p", "a", "r", "e", "n", "t", ".", "p", "o", "s", "t", "M", "e", "s", "s", "a", "g", "e", "(", "{", "t", "y", "p", "e", ":", "'", "u", "n", "r", "e", "s", "o", "l", "v", "e", "d", "-", "r", "e", "f", "'", ",", "n", "a", "m", "e", ":", "'", "f", "o", "o", "'", "}", ",", "'", "*", "'", ")", ";", "r", "e", "t", "u", "r", "n", " ", "f", "a", "l", "s", "e", ";", "\"", ">", "<", "t", "e", "x", "t", ">", "f", "o", "o", "<", "/", "t", "e", "x", "t", ">", "<", "/", "a", ">">>
ExampleEscaped ==
  <<"a", "\\", "\\", "b", "\\", "'", "c">>
ExampleInput ==
  <<"<", "a", " ", "h", "r", "e", "f", "=", "\"", "\\", "r", "e", "f", "\"", ">", "<", "t", "e", "x", "t", ">", "f", "o", "o", "<", "/", "t", "e", "x", "t", ">", "<", "/", "a", ">">>

\* C3: resolved branch: every placeholder attribute of the opening tag is
\* bound, under its own key, to the URL as it is; no onclick is added and
\* nothing else of the tag or of the buffer changes.  ExampleInput with
\* foo resolving to foo.html becomes ExampleResolved.
C3_ResolvedBranch ==
  /\ (last.step = "rewrite" /\ last.url # <<>>) =>
       /\ Left(result, last.aTagStart) = Left(last.before, last.aTagStart)
       /\ MidToEnd(result, searchStart) = MidToEnd(last.before, last.aTagOpenEnd + 1)
       /\ LastNewTag = substitute(LastTag, BareHref, HrefEq \o last.url \o Quote)
  /\ (Returned /\ Len(chunks) = 1 /\ WellFormedInput
        /\ UrlFor(Vocabulary[chunks[1]].name) # <<>>) =>
       result = ExpectedChunk(Vocabulary[chunks[1]], UrlFor(Vocabulary[chunks[1]].name))
  /\ (Returned /\ InputBuffer = ExampleInput /\ UrlFor(NameFoo) = FileFoo) =>
       result = ExampleResolved

C3_Witness ==
  /\ Returned
  /\ InputBuffer = ExampleInput
  /\ calls = 1
  /\ result = ExampleResolved

\* C4: unresolved branch: every placeholder attribute of the opening tag is
\* bound, under its own key, to "#", and exactly one onclick attribute is put
\* right before the tag's final ">".  ExampleInput with foo unresolved becomes
\* ExampleUnresolved.
C4_UnresolvedBranch ==
  /\ (last.step = "rewrite" /\ last.url = <<>>) =>
       /\ Left(result, last.aTagStart) = Left(last.before, last.aTagStart)
       /\ MidToEnd(result, searchStart) = MidToEnd(last.before, last.aTagOpenEnd + 1)
       /\ LET bound == substitute(LastTag, BareHref, HrefEq \o Hash \o Quote)
          IN LastNewTag = Left(bound, Len(bound) - 1)
                            \o ExpectedOnclick(last.refName) \o Gt
  /\ (Returned /\ Len(chunks) = 1 /\ WellFormedInput
        /\ UrlFor(Vocabulary[chunks[1]].name) = <<>>) =>
       result = ExpectedChunk(Vocabulary[chunks[1]], <<>>)
  /\ (Returned /\ InputBuffer = ExampleInput /\ UrlFor(NameFoo) = <<>>) =>
       result = ExampleUnresolved

C4_Witness ==
  /\ Returned
  /\ InputBuffer = ExampleInput
  /\ calls = 1
  /\ result = ExampleUnresolved

\* C5: a buffer of N well-formed placeholder anchors, with placeholder-free
\* text around them, comes back with exactly N opening tags rewritten, each
\* as its own name and the resolver's answer for it dictate, and every
\* character outside those tags as it was.
C5_MultipleAnchors ==
  (Returned /\ WellFormedInput) =>
    /\ result = ExpectedOutput(chunks)
    /\ calls = Len(chunks)
    /\ iters = Len(chunks)

C5_Witness ==
  /\ Returned
  /\ WellFormedInput
  /\ Len(chunks) = 2
  /\ Vocabulary[chunks[2]].lead # <<>>
  /\ UrlFor(Vocabulary[chunks[1]].name) = <<>>
  /\ UrlFor(Vocabulary[chunks[2]].name) # <<>>
  /\ result = ExpectedOutput(chunks)

\* how often needle stands in s
Count(s, needle) == Cardinality(Occurrences(s, needle, 0, Len(s) - Len(needle)))

\* C6: no partial-anchor corruption on any buffer: an opening tag is either
\* left as it was or rewritten to one of the two shapes; an opening tag that
\* holds no placeholder is never changed, and no tag ever carries more than
\* one injected onclick.
C6_NoPartialCorruption ==
  last.step = "rewrite" =>
    /\ Remaining(LastTag, 0) > 0
    /\ Remaining(LastNewTag, 0) = 0
    /\ Count(LastNewTag, OnclickOpen) <= 1

\* a placeholder anchor without its "</a>"
Unclosed(c) ==
  /\ c.kind = "anchor"
  /\ ~c.closed
  /\ \E i \in DOMAIN c.attrs : c.attrs[i] \in {"href", "xlink"}

\* the buffer patchBareRefs is to return when the unclosed anchors are left
\* alone and the well-formed ones rewritten
RECURSIVE ExpectedSkipping(_)
ExpectedSkipping(ids) ==
  IF ids = <<>> THEN <<>>
  ELSE LET c == Vocabulary[Head(ids)]
       IN (IF Unclosed(c) THEN ChunkText(c) ELSE ExpectedChunk(c, UrlFor(c.name)))
            \o ExpectedSkipping(Tail(ids))

\* C7: malformed skip: in a buffer where a placeholder anchor has no matching
\* "</a>", wherever it stands among well-formed placeholder anchors, the loop
\* ends, that anchor's opening tag and placeholder are left as they were, and
\* every well-formed anchor is rewritten.
C7_MalformedSkip ==
  ( /\ \E i \in DOMAIN chunks : Unclosed(Vocabulary[chunks[i]])
    /\ \A i \in DOMAIN chunks :
         Unclosed(Vocabulary[chunks[i]]) \/ WellFormed(Vocabulary[chunks[i]]) )
  => /\ pc = "loop" => iters <= 2 * Len(chunks)
     /\ Returned => result = ExpectedSkipping(chunks)

\* a tag with both spellings: a plain placeholder besides the one inside
\* every namespaced placeholder
Dual(tag) ==
  /\ Count(tag, BareXlinkHref) > 0
  /\ Count(tag, BareHref) > Count(tag, BareXlinkHref)

HasBoth(c) ==
  /\ \E i \in DOMAIN c.attrs : c.attrs[i] = "href"
  /\ \E i \in DOMAIN c.attrs : c.attrs[i] = "xlink"

\* C8: dual attribute handling: an opening tag holding both spellings, in
\* either order, is rewritten in one iteration, both attributes to the same
\* value (the URL, or "#" with one shared onclick), each under its own key.
C8_DualAttribute ==
  /\ (last.step = "rewrite" /\ Dual(LastTag)) =>
       LET v == IF last.url = <<>> THEN Hash ELSE last.url
           bound == HrefEq \o v \o Quote
       IN /\ Remaining(LastNewTag, 0) = 0
          /\ Count(LastNewTag, XlinkPrefix \o bound) = Count(LastTag, BareXlinkHref)
          /\ Count(LastNewTag, bound) = Count(LastTag, BareHref)
          /\ Count(LastNewTag, OnclickOpen)
               = Count(LastTag, OnclickOpen) + (IF last.url = <<>> THEN 1 ELSE 0)
  /\ (Returned /\ WellFormedInput
        /\ \A i \in DOMAIN chunks : HasBoth(Vocabulary[chunks[i]])) =>
       /\ iters = Len(chunks)
       /\ result = ExpectedOutput(chunks)

C8_Witness ==
  /\ Returned
  /\ Len(chunks) = 2
  /\ Vocabulary[chunks[1]].attrs = <<"href", "xlink">>
  /\ Vocabulary[chunks[2]].attrs = <<"xlink", "href">>
  /\ UrlFor(Vocabulary[chunks[1]].name) = <<>>
  /\ UrlFor(Vocabulary[chunks[2]].name) # <<>>
  /\ iters = 2
  /\ result = ExpectedOutput(chunks)

\* C9: escaping order: the name inside the onclick handler has every
\* backslash doubled and then every single quote prefixed with a backslash,
\* which is each backslash and each quote of the name escaped once;
\* a\b'c is embedded as ExampleEscaped.
C9_EscapingOrder ==
  (last.step = "rewrite" /\ last.url = <<>>) =>
    LET embedded == HandlerHead \o EscapeCharwise(last.refName) \o HandlerTail \o Quote \o Gt
    IN /\ SubSeq(LastNewTag, Len(LastNewTag) - Len(embedded) + 1, Len(LastNewTag))
            = embedded
       /\ last.refName = NameEsc =>
            Find(LastNewTag, HandlerHead \o ExampleEscaped \o HandlerTail, 0) # -1

C9_Witness ==
  /\ last.step = "rewrite"
  /\ last.url = <<>>
  /\ last.refName = NameEsc
  /\ Find(result, HandlerHead \o ExampleEscaped \o HandlerTail, 0) # -1

\* C10: the gate: on a file holding neither spelling run() returns success
\* without calling the resolver and without opening the file for writing, the
\* file staying as it was; and patchBareRefs returns such a buffer unchanged.
C10_Gate ==
  Remaining(InputBuffer, 0) = 0 =>
    /\ (entry = "run" /\ pc = "done" /\ io[1] = "read") =>
         /\ ret = "true"
         /\ io = <<"read">>
         /\ calls = 0
         /\ file = InputBuffer
    /\ (entry = "patch" /\ Returned) =>
         /\ result = InputBuffer
         /\ calls = 0

C10_Witness ==
  /\ entry = "run"
  /\ pc = "done"
  /\ ret = "true"
  /\ InputBuffer # <<>>
  /\ Remaining(InputBuffer, 0) = 0
  /\ file = InputBuffer

\* C11: run() returns failure exactly when the file cannot be opened for
\* reading, or when it holds placeholders and cannot be opened for writing
\* after patching; after a read failure nothing was resolved or written and
\* the file is as before, after a write failure the file is as before; every
\* other return is a success, whatever anchors were skipped or unresolved.
C11_RunFailure ==
  (entry = "run" /\ pc = "done") =>
    /\ ret \in {"true", "false"}
    /\ ret = "false" <=>
         \/ io = <<"read failed">>
         \/ Remaining(InputBuffer, 0) > 0 /\ io = <<"read", "write failed">>
    /\ ret = "true" => io \in {<<"read">>, <<"read", "write">>}
    /\ io[1] = "read failed" =>
         calls = 0 /\ iters = 0 /\ refTable = EmptyTable /\ file = InputBuffer
    /\ io[Len(io)] = "write failed" => file = InputBuffer

C11_Witness ==
  /\ entry = "run"
  /\ pc = "done"
  /\ ret = "false"
  /\ io = <<"read", "write failed">>
  /\ calls > 0
  /\ result # InputBuffer
  /\ file = InputBuffer

\* a run() that succeeded although one anchor was skipped and one name was
\* left unresolved
C11_SuccessDespiteSkips ==
  /\ entry = "run"
  /\ pc = "done"
  /\ ret = "true"
  /\ Remaining(result, 0) > 0
  /\ \E n \in DOMAIN refTable : UrlFor(n) = <<>>

\* a descriptor counts as resolved when it has a file or an anchor
Resolved(df) == df.file # <<>> \/ df.anchor # <<>>

\* the URL of a resolved descriptor: the external-scope prefix, the
\* extension-qualified file if there is one, "#" and the anchor if there is one
ComposedUrl(df, relPath) ==
  externalRef(relPath, df.ref)
    \o (IF df.file # <<>> THEN addHtmlExtensionIfMissing(df.file) ELSE <<>>)
    \o (IF df.anchor # <<>> THEN Hash \o df.anchor ELSE <<>>)

C13_ExactlyOnce ==
  /\ last.step \in {"skip", "rewrite"} => searchStart > last.cursor
  /\ last.step = "rewrite" =>
       /\ searchStart = last.aTagStart
                          + Len(newOpeningTag(LastTag, last.refName, last.url))
       /\ searchStart > last.refPos

\* the length of the placeholder spelling found at the latest refPos
FoundLen ==
  IF StartsAt(last.before, BareXlinkHref, last.refPos)
  THEN Len(BareXlinkHref) ELSE Len(BareHref)

\* C14: whenever an iteration rewrites, the placeholder it found lies inside
\* the opening tag it rewrites, so that the tag holds a placeholder and the
\* rewrite removes the one that was found; a placeholder in an anchor's
\* content or outside any anchor causes no rewrite.
C14_PlaceholderInsideTag ==
  last.step = "rewrite" =>
    /\ last.aTagStart <= last.refPos
    /\ last.refPos + FoundLen - 1 <= last.aTagOpenEnd
    /\ Remaining(LastTag, 0) > 0
    /\ Remaining(result, 0) < Remaining(last.before, 0)

\* the first placeholder, of either spelling, at or after offset ss (there
\* is one)
FirstPlaceholder(r, ss) ==
  Min(Occurrences(r, BareHref, ss, Len(r) - Len(BareHref))
        \cup Occurrences(r, BareXlinkHref, ss, Len(r) - Len(BareXlinkHref)))

\* the cases in which the placeholder at rp is to be skipped: no "<a" at or
\* before it, no "</a>" at or after it, no ">" from the "<a" on, the first
\* such ">" beyond the "</a>", or no reference name between the two
SkipCase(r, rp) ==
  LET opens == Occurrences(r, ATagOpen, 0, rp)
      closes == Occurrences(r, ATagEnd, rp, Len(r) - Len(ATagEnd))
  IN \/ opens = {}
     \/ closes = {}
     \/ LET ends == Occurrences(r, Gt, Max(opens), Len(r) - 1)
        IN \/ ends = {}
           \/ Min(ends) > Min(closes)
           \/ extractRefNameFromAnchorContent(
                SubSeq(r, Min(ends) + 2, Min(closes))) = <<>>

\* C15: skip step: when for the placeholder found no "<a" precedes, no
\* "</a>" follows, no ">" follows the "<a", the opening tag ends after the
\* "</a>", or the extracted name is empty, the iteration leaves the buffer as
\* it is, does not call the resolver, and moves the cursor to refPos + 1,
\* beyond where it was.
C15_SkipStep ==
  [][ ( /\ pc = "loop"
        /\ Remaining(result, searchStart) > 0
        /\ SkipCase(result, FirstPlaceholder(result, searchStart)) )
      => /\ result' = result
         /\ calls' = calls
         /\ refTable' = refTable
         /\ searchStart' = FirstPlaceholder(result, searchStart) + 1
         /\ searchStart' > searchStart ]_vars

C15_Witness ==
  /\ last.step = "skip"
  /\ result = last.before
  /\ searchStart = last.refPos + 1
  /\ last.aTagStart # -1
  /\ last.aTagClose # -1
  /\ last.aTagOpenEnd < last.aTagClose
  /\ last.refName = <<>>
  /\ calls = 0

\* C16: anchor-region invariant: an iteration that extracts and rewrites has
\* aTagStart <= aTagOpenEnd < aTagClose, so that the opening tag and the
\* inner content are slices of non-negative length inside the buffer; a
\* candidate whose opening tag ends at or after the "</a>" is skipped.
C16_AnchorRegion ==
  /\ last.step = "rewrite" =>
       /\ 0 <= last.aTagStart
       /\ last.aTagStart <= last.aTagOpenEnd
       /\ last.aTagOpenEnd < last.aTagClose
       /\ last.aTagClose + Len(ATagEnd) <= Len(last.before)
       /\ Len(LastTag) = last.aTagOpenEnd - last.aTagStart + 1
       /\ Len(anchorContent(last.before, last.aTagOpenEnd, last.aTagClose))
            = last.aTagClose - last.aTagOpenEnd - 1
  /\ ( /\ last.step \in {"skip", "rewrite"}
       /\ last.aTagStart # -1
       /\ last.aTagClose # -1
       /\ last.aTagOpenEnd >= last.aTagClose )
     => last.step = "skip" /\ result = last.before

C16_Witness ==
  /\ last.step = "rewrite"
  /\ last.aTagStart > 0
  /\ last.aTagStart < last.aTagOpenEnd
  /\ last.aTagOpenEnd + 1 < last.aTagClose
  /\ last.refName # <<>>

\* an iteration that skipped a candidate whose opening tag ends after "</a>"
C16_SkippedCandidate ==
  /\ last.step = "skip"
  /\ last.aTagStart # -1
  /\ last.aTagClose # -1
  /\ last.aTagOpenEnd > last.aTagClose

\* C17: leftmost-first selection: the placeholder an iteration works on is
\* the one at the smallest offset at or after the cursor, of whichever
\* spelling; the loop is left only when neither spelling occurs at or after
\* the cursor.
C17_LeftmostFirst ==
  /\ last.step \in {"skip", "rewrite"} =>
       /\ Remaining(last.before, last.cursor) > 0
       /\ last.refPos = FirstPlaceholder(last.before, last.cursor)
  /\ last.step = "break" =>
       /\ last.refPos = -1
       /\ Remaining(result, searchStart) = 0

C17_Witness ==
  /\ last.step = "rewrite"
  /\ last.cursor > 0
  /\ StartsAt(last.before, BareXlinkHref, last.refPos)
  /\ hrefPos(last.before, last.cursor) = last.refPos + Len(XlinkPrefix)
  /\ Remaining(last.before, last.refPos + Len(BareXlinkHref)) > 0

\* s holds, from offset p on, "<text", no ">" up to the ">" at offset q, one
\* or more characters other than "<" up to offset e, and "</text>" at e
IsCaptionAt(s, p, q, e) ==
  /\ StartsAt(s, TextOpen, p)
  /\ q >= p + Len(TextOpen)
  /\ s[q + 1] = ">"
  /\ \A k \in (p + Len(TextOpen))..(q - 1) : s[k + 1] # ">"
  /\ e > q + 1
  /\ \A k \in (q + 1)..(e - 1) : s[k + 1] # "<"
  /\ StartsAt(s, TextEnd, e)

CaptionStarts(s) ==
  {p \in 0..(Len(s) - 1) :
     /\ StartsAt(s, TextOpen, p)
     /\ \E q \in p..(Len(s) - 1) : \E e \in q..(Len(s) - 1) : IsCaptionAt(s, p, q, e)}

Trimmed(t) ==
  LET solid == {i \in 1..Len(t) : t[i] \notin {" ", "\t", "\n", "\r"}}
  IN IF solid = {} THEN <<>> ELSE SubSeq(t, Min(solid), Max(solid))

\* the trimmed text of the first caption element of s, empty without one
FirstCaption(s) ==
  IF CaptionStarts(s) = {} THEN <<>>
  ELSE LET p == Min(CaptionStarts(s))
           qe == CHOOSE qe \in (p..(Len(s) - 1)) \X (p..(Len(s) - 1)) :
                   IsCaptionAt(s, p, qe[1], qe[2])
       IN Trimmed(SubSeq(s, qe[1] + 2, qe[2]))

\* the slice between the opening tag's end and the "</a>" of the latest step
LastSlice == SubSeq(last.before, last.aTagOpenEnd + 2, last.aTagClose)

\* C18: reference extraction: the name of an anchor is the trimmed text of
\* the first caption element between the end of its opening tag and the
\* first "</a>" after the placeholder; later captions, captions beyond the
\* "</a>" and captions of other anchors are not used, and the name is empty
\* when there is no caption or its text is blank.
C18_ReferenceExtraction ==
  ( /\ last.step \in {"skip", "rewrite"}
    /\ last.aTagStart # -1
    /\ last.aTagClose # -1
    /\ last.aTagOpenEnd # -1
    /\ last.aTagOpenEnd < last.aTagClose )
  => /\ last.aTagClose = Find(last.before, ATagEnd, last.refPos)
     /\ last.refName = FirstCaption(LastSlice)
     /\ last.step = "skip" <=> FirstCaption(LastSlice) = <<>>
     /\ last.step = "rewrite" =>
          Occurrences(LastSlice, ATagOpen, 0, Min(CaptionStarts(LastSlice))) = {}

\* C19: idempotent rewriting: patchBareRefs applied to a buffer it has
\* returned, under the same resolver, returns it unchanged: what was skipped
\* is skipped again, and no rewritten tag is rewritten again.
C19_Idempotent ==
  entry = "again" =>
    /\ result = content
    /\ last.step \in {"none", "skip", "break"}

C19_Witness ==
  /\ entry = "again"
  /\ Returned
  /\ iters > 0
  /\ Remaining(content, 0) > 0
  /\ Count(content, OnclickOpen) = 1
  /\ result = content
  /\ content # InputBuffer

\* C20: resolveRefToUrl returns the resolved URL when the name resolves, and
\* the string "#" when it does not.
C20_HashIfUnresolved ==
  last.step = "rewrite" =>
    LET df == refTable[last.refName]
    IN last.url = IF Resolved(df) THEN ComposedUrl(df, m_relPath) ELSE Hash

====
